---- MODULE Spec2Model ----
(***************************************************************************)
(* OCPP sample client/server: the CSMS server (server.py), the charge      *)
(* point client (client.py) and their shared configuration (settings.py).  *)
(*                                                                         *)
(* Five specifications are explored over the same state:                   *)
(*   ServerSpec    the Server process and MaxConn peers that open a        *)
(*                 connection with arbitrary handshake headers;            *)
(*   Spec          one Client.run against either this Server or another    *)
(*                 CSMS, step by step between the awaits of the code;      *)
(*   FairSpec      Spec with the event loop's scheduling as weak fairness; *)
(*   TeardownSpec  Spec with Client.finish_up also called from outside     *)
(*                 Client.run, up to MaxTeardowns times;                   *)
(*   HandlerSpec   Spec with the try of on_boot_notification ending in     *)
(*                 each of the ways its except clauses provide for.        *)
(*                                                                         *)
(* asyncio runs the code between two awaits atomically, so every action is *)
(* one such stretch of a coroutine.  Task.cancel() is modelled at the      *)
(* level of the source: a task that has not finished becomes "cancelled".  *)
(***************************************************************************)
EXTENDS Integers, Sequences, FiniteSets, TLC

\* ------------------------------------------------------------ bounds
MaxConn == 2      \* connections the server sees in ServerSpec
MaxReq == 2       \* longest Sec-WebSocket-Protocol list a peer offers

\* ------------------------------------------------------------ configuration
USERNAME == "test"
PASSWORD == "123"
OCPP_SUBPROTOCOLS == <<"ocpp2.0.1">>

UNAUTHORIZED == 401
FORBIDDEN == 403
BAD_REQUEST == 400

\* inputs: what peers may put in their handshake
Credentials == {<<"test", "123">>, <<"test", "000">>, <<"eve", "123">>}
Protocols == {"ocpp1.6", "ocpp2.0.1"}

Conns == 1..MaxConn

\* ------------------------------------------------------------ headers
\* A header that is absent is the empty sequence.
NoHeader == <<>>
NoSubprotocol == ""

\* websockets.headers.build_authorization_basic: "Basic " + base64(user:pwd),
\* an injective encoding of the pair.
build_authorization_basic(username, password) == <<"Basic", username, password>>

Range(s) == {s[i] : i \in 1..Len(s)}

\* The lists of at most n distinct elements of S (RFC 6455 has a client list
\* each subprotocol once).
RECURSIVE SeqsUpTo(_, _)
SeqsUpTo(S, n) ==
    IF n = 0 THEN {<<>>}
    ELSE LET shorter == SeqsUpTo(S, n - 1)
         IN shorter \cup UNION {{Append(s, x) : x \in S \ Range(s)} : s \in shorter}

AuthHeaders ==
    {NoHeader} \cup {build_authorization_basic(k[1], k[2]) : k \in Credentials}

\* <<>> : the peer sends no Sec-WebSocket-Protocol header (it requests nothing)
ProtoHeaders == SeqsUpTo(Protocols, MaxReq)

Requests == [auth : AuthHeaders, proto : ProtoHeaders]
NoReq == [auth |-> <<"none">>, proto |-> <<>>]

IndexOf(s, x) == CHOOSE i \in 1..Len(s) : s[i] = x /\ \A j \in 1..(i - 1) : s[j] # x

\* (mutant) the first subprotocol the client lists, supported or not
select_first_requested(client_subprotocols, server_subprotocols) ==
    IF client_subprotocols = <<>> THEN {NoSubprotocol} ELSE {client_subprotocols[1]}

\* The subprotocols the library may select for a handshake: those common to
\* both lists with the least sum of positions; none when nothing is common or
\* the header is absent.
select_subprotocol(client_subprotocols, server_subprotocols) ==
    LET common == Range(client_subprotocols) \cap Range(server_subprotocols)
        priority(p) == IndexOf(client_subprotocols, p) + IndexOf(server_subprotocols, p)
    IN IF common = {} THEN {NoSubprotocol}
       ELSE {p \in common : \A q \in common : priority(p) <= priority(q)}

\* ------------------------------------------------------------ Server.worker
None == [status |-> 0, headers |-> <<>>, body |-> <<>>]

reject_handshake(http_status, msg) ==
    [status |-> http_status, headers |-> <<>>, body |-> msg]

\* A message is the sequence of its parts, a piece of text or a list put into
\* it by the f-string.
Text(t) == << <<t>> >>

MismatchMsg(available_subprotocols, requested_protocols) ==
    << <<"Protocols Mismatched, expected Subprotocols">>, available_subprotocols,
       <<"but received">>, requested_protocols >>

\* (mutant) the assert is compiled away: any Authorization header passes
worker_assert_stripped(request_headers, subprotocol, available_subprotocols) ==
    IF request_headers.auth = NoHeader
    THEN reject_handshake(UNAUTHORIZED, Text("Access denied."))
    ELSE IF request_headers.proto = NoHeader
    THEN reject_handshake(BAD_REQUEST, Text("Subprotocol missing."))
    ELSE IF subprotocol = NoSubprotocol
    THEN reject_handshake(BAD_REQUEST,
                          MismatchMsg(available_subprotocols, request_headers.proto))
    ELSE None

\* (mutant) the protocol is validated before the connection is authenticated
worker_protocol_first(request_headers, subprotocol, available_subprotocols) ==
    IF request_headers.proto = NoHeader
    THEN reject_handshake(BAD_REQUEST, Text("Subprotocol missing."))
    ELSE IF subprotocol = NoSubprotocol
    THEN reject_handshake(BAD_REQUEST,
                          MismatchMsg(available_subprotocols, request_headers.proto))
    ELSE IF request_headers.auth = NoHeader
    THEN reject_handshake(UNAUTHORIZED, Text("Access denied."))
    ELSE IF request_headers.auth # build_authorization_basic(USERNAME, PASSWORD)
    THEN reject_handshake(FORBIDDEN, Text("Invalid Username/Password."))
    ELSE None

\* (mutant) the mismatch message names only what the server expects
worker_msg_without_requested(request_headers, subprotocol, available_subprotocols) ==
    IF request_headers.auth = NoHeader
    THEN reject_handshake(UNAUTHORIZED, Text("Access denied."))
    ELSE IF request_headers.auth # build_authorization_basic(USERNAME, PASSWORD)
    THEN reject_handshake(FORBIDDEN, Text("Invalid Username/Password."))
    ELSE IF request_headers.proto = NoHeader
    THEN reject_handshake(BAD_REQUEST, Text("Subprotocol missing."))
    ELSE IF subprotocol = NoSubprotocol
    THEN reject_handshake(BAD_REQUEST,
                          << <<"Protocols Mismatched, expected Subprotocols">>,
                             available_subprotocols >>)
    ELSE None

\* Lines 98-118 of worker: the value it returns, None when it goes on to
\* start the session.
worker(request_headers, subprotocol, available_subprotocols) ==
    IF request_headers.auth = NoHeader
    THEN reject_handshake(UNAUTHORIZED, Text("Access denied."))
    ELSE IF request_headers.auth # build_authorization_basic(USERNAME, PASSWORD)
    THEN reject_handshake(FORBIDDEN, Text("Invalid Username/Password."))
    ELSE IF request_headers.proto = NoHeader
    THEN reject_handshake(BAD_REQUEST, Text("Subprotocol missing."))
    ELSE IF subprotocol = NoSubprotocol
    THEN reject_handshake(BAD_REQUEST,
                          MismatchMsg(available_subprotocols, request_headers.proto))
    ELSE None

\* ------------------------------------------------------------ state
VARIABLES
    \* Server process
    server_task,   \* Server._task: "None", "pending", "done", "cancelled"
    csms_server,   \* Server.csms_server: the connection its CSMSServer was built for, 0 = None
    sessions,      \* connections for which a CSMSServer was constructed and started
    slog,          \* the server's log, per connection whose worker wrote the line
    \* per connection, 0 is the client's link to a CSMS other than this Server
    req,           \* the handshake request headers
    link,          \* "idle", "open", "closed" (close handshake), "failed" (dropped)
    subprotocol,   \* websocket.subprotocol
    wpc,           \* Server.worker: "none", "invoked", "started", "returned"
    result,        \* what worker returned
    validation,    \* what the try of the last on_boot_notification raised
    \* Client process
    peer,          \* "none", "server" (this Server), "other" (another CSMS)
    creds,         \* the (username, password) given to Client.run
    cpc,           \* Client.run: "init", "connecting", "await_boot", "await_status",
                   \*             "closing", "exiting", "returned"
    exc,           \* the exception travelling through Client.run, "none" if none
    raised,        \* the exception Client.run ended with, "none" if it returned
    csms_client,   \* Client.csms_client is constructed
    tasks,         \* Client._tasks
    tstate,        \* state of each task the client spawned
    resp,          \* the value each call task returned
    c2s, s2c,      \* frames in flight on the client's connection
    clog,          \* the client's log
    finish_ups,    \* number of calls of Client.finish_up
    sent           \* actions of the calls the client has written, in order

svars == <<server_task, csms_server, sessions, slog, req, link, subprotocol, wpc, result,
           validation>>
cvars == <<peer, creds, cpc, exc, raised, csms_client, tasks, tstate, resp,
           c2s, s2c, clog, finish_ups, sent>>
vars == <<svars, cvars>>

Links == 0..MaxConn
TaskNames == {"start", "boot", "status"}
NoPayload == [status |-> "none", interval |-> 0]

Init ==
    /\ server_task = "None"
    /\ csms_server = 0
    /\ sessions = {}
    /\ slog = [c \in Conns |-> <<>>]
    /\ req = [c \in Conns |-> NoReq]
    /\ link = [c \in Links |-> "idle"]
    /\ subprotocol = [c \in Conns |-> NoSubprotocol]
    /\ wpc = [c \in Conns |-> "none"]
    /\ result = [c \in Conns |-> None]
    /\ validation = "unset"
    /\ peer = "none"
    /\ creds = <<>>
    /\ cpc = "init"
    /\ exc = "none"
    /\ raised = "none"
    /\ csms_client = FALSE
    /\ tasks = <<>>
    /\ tstate = [t \in TaskNames |-> "none"]
    /\ resp = [t \in TaskNames |-> NoPayload]
    /\ c2s = <<>>
    /\ s2c = <<>>
    /\ clog = <<>>
    /\ finish_ups = 0
    /\ sent = <<>>

\* ------------------------------------------------------------ Server
\* Server.run -> start_server: the serve() future is scheduled.
start_server ==
    /\ server_task = "None"
    /\ server_task' = "pending"
    /\ UNCHANGED <<csms_server, sessions, slog, req, link, subprotocol, wpc, result, validation>>
    /\ UNCHANGED cvars

\* The serve() future completes: the server is bound and listening.
ServeBound ==
    /\ server_task = "pending"
    /\ server_task' = "done"
    /\ UNCHANGED <<csms_server, sessions, slog, req, link, subprotocol, wpc, result, validation>>
    /\ UNCHANGED cvars

Listening == server_task = "done"

\* The library's opening handshake for connection c with headers r: it selects
\* the subprotocol, answers 101 and schedules the connection handler, worker.
Accept(c, r) ==
    /\ Listening
    /\ link[c] = "idle"
    /\ wpc[c] = "none"
    /\ \E s \in select_subprotocol(r.proto, OCPP_SUBPROTOCOLS) :
           subprotocol' = [subprotocol EXCEPT ![c] = s]
    /\ req' = [req EXCEPT ![c] = r]
    /\ link' = [link EXCEPT ![c] = "open"]
    /\ wpc' = [wpc EXCEPT ![c] = "invoked"]

\* A peer other than Client.run opens connection c.
PeerConnect(c, r) ==
    /\ req[c] = NoReq
    /\ Accept(c, r)
    /\ UNCHANGED <<server_task, csms_server, sessions, slog, result, validation>>
    /\ UNCHANGED cvars

CloseIfOpen(c) == [link EXCEPT ![c] = IF @ = "open" THEN "closed" ELSE @]

\* Server.worker up to its first await.  A rejection returns, and the library
\* then closes the connection; otherwise the CSMSServer is constructed, stored
\* in Server.csms_server and its read loop awaited.
Worker(c) ==
    /\ wpc[c] = "invoked"
    /\ LET r == worker(req[c], subprotocol[c], OCPP_SUBPROTOCOLS)
       IN IF r # None
          THEN /\ result' = [result EXCEPT ![c] = r]
               /\ slog' = [slog EXCEPT ![c] = Append(@, <<"error", r.body>>)]
               /\ wpc' = [wpc EXCEPT ![c] = "returned"]
               /\ link' = CloseIfOpen(c)
               /\ UNCHANGED <<csms_server, sessions>>
          ELSE /\ slog' = [slog EXCEPT ![c] = Append(@, <<"info", <<"Protocols Matched", subprotocol[c]>>>>)]
               /\ csms_server' = c
               /\ sessions' = sessions \cup {c}
               /\ wpc' = [wpc EXCEPT ![c] = "started"]
               /\ UNCHANGED <<result, link>>
    /\ UNCHANGED <<server_task, req, subprotocol, validation>>
    /\ UNCHANGED cvars

Unfinished == {"pending", "ready", "waiting"}

\* (mutant) cancel() undoes a task that has finished: the server it started is closed
cancel_finished(task) == "cancelled"

\* (mutant) cancelling a task that is already cancelled is an error
cancel_once(task) ==
    IF task \in Unfinished THEN "cancelled"
    ELSE IF task = "cancelled" THEN "InvalidStateError"
    ELSE task

\* Task.cancel(): a task that has finished stays as it is.
cancel(task) == IF task \in Unfinished THEN "cancelled" ELSE task

\* The session's read loop raises ConnectionClosed, a WebSocketException:
\* worker catches it, calls stop_server and returns.
stop_server(c) ==
    /\ wpc[c] = "started"
    /\ link[c] \in {"closed", "failed"}
    /\ server_task' = cancel(server_task)
    /\ slog' = [slog EXCEPT ![c] = Append(@, <<"warning", <<"Connection closed", csms_server>>>>)]
    /\ wpc' = [wpc EXCEPT ![c] = "returned"]
    /\ UNCHANGED <<csms_server, sessions, req, link, subprotocol, result, validation>>
    /\ UNCHANGED cvars

\* The peer of connection c closes it.
PeerClose(c) ==
    /\ link[c] = "open"
    /\ IF c = 0 THEN peer = "other" ELSE ~(peer = "server" /\ c = 1)
    /\ link' = [link EXCEPT ![c] = "closed"]
    /\ UNCHANGED <<server_task, csms_server, sessions, slog, req, subprotocol, wpc, result, validation>>
    /\ UNCHANGED cvars

\* The transport of connection c drops.
TransportFail(c) ==
    /\ link[c] = "open"
    /\ link' = [link EXCEPT ![c] = "failed"]
    /\ UNCHANGED <<server_task, csms_server, sessions, slog, req, subprotocol, wpc, result, validation>>
    /\ UNCHANGED cvars

ServerNext ==
    \/ start_server
    \/ ServeBound
    \/ \E c \in Conns, r \in Requests : PeerConnect(c, r)
    \/ \E c \in Conns : Worker(c)
    \/ \E c \in Conns : stop_server(c)
    \/ \E c \in Conns : PeerClose(c)
    \/ \E c \in Conns : TransportFail(c)

ServerSpec == Init /\ [][ServerNext]_vars

\* ------------------------------------------------------------ CSMSServer
RegistrationStatusType == {"Accepted", "Pending", "Rejected"}

\* (mutant) the branches of the handler mixed up
on_boot_notification_pending(raises) == [status |-> "Pending", interval |-> 10]

\* (mutant) the intervals of the two except branches exchanged
on_boot_notification_swapped(raises) ==
    IF raises = "RuntimeError" THEN [status |-> "Rejected", interval |-> 120]
    ELSE IF raises = "TimeoutError" THEN [status |-> "Pending", interval |-> 60]
    ELSE [status |-> "Accepted", interval |-> 10]

\* CSMSServer.on_boot_notification; raises is what the body of its try raised.
on_boot_notification(raises) ==
    IF raises = "RuntimeError" THEN [status |-> "Rejected", interval |-> 60]
    ELSE IF raises = "TimeoutError" THEN [status |-> "Pending", interval |-> 120]
    ELSE [status |-> "Accepted", interval |-> 10]

\* CSMSServer.on_status_notification: an empty StatusNotificationPayload.
on_status_notification == [status |-> "", interval |-> 0]

\* What a call returns when the peer answered with a CallError: None.
NonePayload == [status |-> "None", interval |-> 0]

CallFrame(id, action) == [id |-> id, action |-> action]
ResultFrame(id, type, payload) == [id |-> id, type |-> type, payload |-> payload]

\* The read loop of the CSMSServer started for connection c takes the next
\* call off the connection, routes it to its handler and writes the result;
\* raises is what the body of the try in on_boot_notification raises.
Route(c, raises) ==
    /\ peer = "server" /\ c = 1
    /\ wpc[c] = "started"
    /\ link[c] = "open"
    /\ c2s # <<>>
    /\ LET f == Head(c2s)
           payload == IF f.action = "BootNotification"
                      THEN on_boot_notification(raises)
                      ELSE on_status_notification
       IN /\ s2c' = Append(s2c, ResultFrame(f.id, "CallResult", payload))
          /\ validation' = IF f.action = "BootNotification" THEN raises ELSE validation
    /\ c2s' = Tail(c2s)
    /\ UNCHANGED <<server_task, csms_server, sessions, slog, req, link, subprotocol, wpc,
                   result>>
    /\ UNCHANGED <<peer, creds, cpc, exc, raised, csms_client, tasks, tstate, resp,
                   clog, finish_ups, sent>>

\* The body of the try in on_boot_notification is a TODO that raises nothing.
ServerRecv(c) == Route(c, "none")

\* ------------------------------------------------------------ another CSMS
\* A CSMS that is not this Server accepts the client's connection.
OtherAccept ==
    /\ peer = "other"
    /\ cpc = "connecting"
    /\ link[0] = "idle"
    /\ link' = [link EXCEPT ![0] = "open"]
    /\ UNCHANGED <<server_task, csms_server, sessions, slog, req, subprotocol, wpc, result, validation>>
    /\ UNCHANGED cvars

\* It takes the next call and answers it with a result, with a CallError, or
\* not at all.
OtherReply ==
    /\ peer = "other"
    /\ link[0] = "open"
    /\ c2s # <<>>
    /\ LET f == Head(c2s)
       IN \/ /\ f.action = "BootNotification"
             /\ \E st \in RegistrationStatusType :
                    s2c' = Append(s2c, ResultFrame(f.id, "CallResult",
                                                   [status |-> st, interval |-> 10]))
          \/ /\ f.action = "StatusNotification"
             /\ s2c' = Append(s2c, ResultFrame(f.id, "CallResult", on_status_notification))
          \/ s2c' = Append(s2c, ResultFrame(f.id, "CallError", NonePayload))
          \/ s2c' = s2c
    /\ c2s' = Tail(c2s)
    /\ UNCHANGED svars
    /\ UNCHANGED <<peer, creds, cpc, exc, raised, csms_client, tasks, tstate, resp,
                   clog, finish_ups, sent>>

\* ------------------------------------------------------------ Client
ClientLink == IF peer = "server" THEN 1 ELSE 0

Failures == {"WebSocketException", "TimeoutError"}
Finished == {"done", "cancelled"} \cup Failures

\* What awaiting a finished task raises in the coroutine that awaits it: the
\* task's exception, CancelledError for a cancelled task, nothing otherwise.
Raises(task) ==
    IF task \in Failures THEN task
    ELSE IF task = "cancelled" THEN "CancelledError"
    ELSE "none"

\* Client._create_connection: the Authorization header comes from the user
\* info of the URI, the subprotocols from the settings.
_create_connection(uname, pwd) ==
    [auth |-> build_authorization_basic(uname, pwd), proto |-> OCPP_SUBPROTOCOLS]

\* Client.run is called: it starts to open the connection.
Run(uname, pwd, to) ==
    /\ cpc = "init"
    /\ creds' = <<uname, pwd>>
    /\ peer' = to
    /\ cpc' = "connecting"
    /\ UNCHANGED svars
    /\ UNCHANGED <<exc, raised, csms_client, tasks, tstate, resp, c2s, s2c, clog,
                   finish_ups, sent>>

\* The Server's library answers the client's opening handshake.
Handshake ==
    /\ peer = "server"
    /\ cpc = "connecting"
    /\ Accept(1, _create_connection(creds[1], creds[2]))
    /\ UNCHANGED <<server_task, csms_server, sessions, slog, result, validation>>
    /\ UNCHANGED cvars

LogFor(e) ==
    IF e = "WebSocketException"
    THEN << <<"error", "Connection refused from Server. Make sure you entered the correct credentials.">> >>
    ELSE IF e = "RuntimeError"
    THEN << <<"error", "Unknown error happened on server.">> >>
    ELSE <<>>

Caught == {"none", "WebSocketException", "RuntimeError"}

\* (mutant) finish_up placed after the except clauses instead of in finally
finally_after_handlers(e) == e \in Caught

\* Whether finish_up runs when Client.run leaves its try with exception e.
finally_runs(e) == TRUE

\* Client.finish_up: every task of _tasks is cancelled.
finish_up(ts, st) ==
    [t \in TaskNames |-> IF t \in Range(ts) THEN cancel(st[t]) ELSE st[t]]

\* The except clauses and the finally of Client.run, then its return.
Leave(e) ==
    /\ clog' = clog \o LogFor(e)
    /\ raised' = IF e \in Caught THEN "none" ELSE e
    /\ IF finally_runs(e)
       THEN /\ tstate' = finish_up(tasks, tstate)
            /\ finish_ups' = finish_ups + 1
       ELSE UNCHANGED <<tstate, finish_ups>>
    /\ exc' = "none"
    /\ cpc' = "returned"

\* Opening the connection fails: refused (OSError) or a failed handshake
\* (WebSocketException).  The async with is never entered.
ConnectFail(e) ==
    /\ cpc = "connecting"
    /\ link[ClientLink] = "idle"
    /\ Leave(e)
    /\ UNCHANGED svars
    /\ UNCHANGED <<peer, creds, csms_client, tasks, resp, c2s, s2c, sent>>

\* (mutant) the read loop task is not kept
make_handshake_unregistered(ts) == ts

\* Client.make_handshake: the read loop task is appended to _tasks.
make_handshake(ts) == Append(ts, "start")

\* Client.exchange_message, line 113: the call task is appended to _tasks.
exchange_message(ts, func) == Append(ts, func)

\* (mutant) exchange_message returns the task without awaiting it
not_awaited(task) == TRUE

\* Client.exchange_message, line 114: run goes on when the task has finished.
awaited(task) == task \in Finished

\* Client.run, lines 119-124: the handshake is over, the session is built, the
\* read loop and the boot notification task are created, run awaits the latter.
ClientOpen ==
    /\ cpc = "connecting"
    /\ link[ClientLink] # "idle"
    /\ csms_client' = TRUE
    /\ tasks' = exchange_message(make_handshake(tasks), "boot")
    /\ tstate' = [tstate EXCEPT !["start"] = "pending", !["boot"] = "ready"]
    /\ cpc' = "await_boot"
    /\ UNCHANGED svars
    /\ UNCHANGED <<peer, creds, exc, raised, resp, c2s, s2c, clog, finish_ups, sent>>

ActionOf(t) == IF t = "boot" THEN "BootNotification" ELSE "StatusNotification"
CallId(t) == IF t = "boot" THEN 1 ELSE 2

\* send_boot_notification / send_status_notification up to the await inside
\* self.call: the call is written, or the write raises ConnectionClosed.
CallSend(t) ==
    /\ t \in {"boot", "status"}
    /\ tstate[t] = "ready"
    /\ IF link[ClientLink] = "open"
       THEN /\ c2s' = Append(c2s, CallFrame(CallId(t), ActionOf(t)))
            /\ sent' = Append(sent, ActionOf(t))
            /\ tstate' = [tstate EXCEPT ![t] = "waiting"]
       ELSE /\ tstate' = [tstate EXCEPT ![t] = "WebSocketException"]
            /\ UNCHANGED <<c2s, sent>>
    /\ UNCHANGED svars
    /\ UNCHANGED <<peer, creds, cpc, exc, raised, csms_client, tasks, resp, s2c, clog,
                   finish_ups>>

\* The read loop receives a frame and hands it to the call that waits for its
\* id: the call returns the payload of a CallResult, None for a CallError.
\* A frame nobody waits for is dropped.
ClientRecv ==
    /\ tstate["start"] = "pending"
    /\ s2c # <<>>
    /\ LET f == Head(s2c)
           waiting == {t \in {"boot", "status"} : tstate[t] = "waiting" /\ CallId(t) = f.id}
       IN IF waiting = {}
          THEN UNCHANGED <<tstate, resp>>
          ELSE LET t == CHOOSE t \in waiting : TRUE
               IN /\ tstate' = [tstate EXCEPT ![t] = "done"]
                  /\ resp' = [resp EXCEPT ![t] = IF f.type = "CallResult"
                                                 THEN f.payload ELSE NonePayload]
    /\ s2c' = Tail(s2c)
    /\ UNCHANGED svars
    /\ UNCHANGED <<peer, creds, cpc, exc, raised, csms_client, tasks, c2s, clog,
                   finish_ups, sent>>

\* self.call gives up waiting for the response: asyncio.TimeoutError.
CallTimeout(t) ==
    /\ tstate[t] = "waiting"
    /\ tstate' = [tstate EXCEPT ![t] = "TimeoutError"]
    /\ UNCHANGED svars
    /\ UNCHANGED <<peer, creds, cpc, exc, raised, csms_client, tasks, resp, c2s, s2c,
                   clog, finish_ups, sent>>

\* The read loop finds the connection closed: its task ends with
\* ConnectionClosed, which nobody awaits.
ReadLoopClosed ==
    /\ tstate["start"] = "pending"
    /\ link[ClientLink] \in {"closed", "failed"}
    /\ s2c = <<>>
    /\ tstate' = [tstate EXCEPT !["start"] = "WebSocketException"]
    /\ UNCHANGED svars
    /\ UNCHANGED <<peer, creds, cpc, exc, raised, csms_client, tasks, resp, c2s, s2c,
                   clog, finish_ups, sent>>

\* (mutant) a None response is handled like any other
response_is_never_None(response) == FALSE

\* Client.handle_boot_notification_response, line 98: the response is None.
response_is_None(response) == response = NonePayload

\* (mutant) no elif: a rejection is logged after whatever was logged before
handle_boot_notification_response_no_elif(response) ==
    (IF response.status = "Accepted" THEN << <<"info", "Boot notification acknowledged!">> >>
     ELSE << <<"info", "Boot notification pending!">> >>)
    \o << <<"warning", "Boot notification rejected!">> >>

\* Client.handle_boot_notification_response: the line it logs.
handle_boot_notification_response(response) ==
    IF response.status = "Accepted" THEN << <<"info", "Boot notification acknowledged!">> >>
    ELSE IF response.status = "Pending" THEN << <<"info", "Boot notification pending!">> >>
    ELSE IF response.status = "Rejected" THEN << <<"warning", "Boot notification rejected!">> >>
    ELSE <<>>

\* Client.run, lines 124-130: the boot notification task has finished.  Its
\* exception, or the RuntimeError for a None response, leaves the async with;
\* otherwise the response is logged and the status notification task created.
RunResumeBoot ==
    /\ cpc = "await_boot"
    /\ awaited(tstate["boot"])
    /\ IF Raises(tstate["boot"]) # "none"
       THEN /\ exc' = Raises(tstate["boot"])
            /\ cpc' = "closing"
            /\ UNCHANGED <<clog, tasks, tstate>>
       ELSE IF response_is_None(resp["boot"])
       THEN /\ exc' = "RuntimeError"
            /\ cpc' = "closing"
            /\ UNCHANGED <<clog, tasks, tstate>>
       ELSE /\ clog' = clog \o handle_boot_notification_response(resp["boot"])
            /\ tasks' = exchange_message(tasks, "status")
            /\ tstate' = [tstate EXCEPT !["status"] = "ready"]
            /\ cpc' = "await_status"
            /\ UNCHANGED exc
    /\ UNCHANGED svars
    /\ UNCHANGED <<peer, creds, raised, csms_client, resp, c2s, s2c, finish_ups, sent>>

\* Client.run, line 130: the status notification task has finished.
RunResumeStatus ==
    /\ cpc = "await_status"
    /\ awaited(tstate["status"])
    /\ exc' = Raises(tstate["status"])
    /\ cpc' = "closing"
    /\ UNCHANGED svars
    /\ UNCHANGED <<peer, creds, raised, csms_client, tasks, tstate, resp, c2s, s2c,
                   clog, finish_ups, sent>>

\* Leaving the async with closes the connection.
ClientClose ==
    /\ cpc = "closing"
    /\ link' = CloseIfOpen(ClientLink)
    /\ cpc' = "exiting"
    /\ UNCHANGED <<server_task, csms_server, sessions, slog, req, subprotocol, wpc, result, validation>>
    /\ UNCHANGED <<peer, creds, exc, raised, csms_client, tasks, tstate, resp, c2s, s2c,
                   clog, finish_ups, sent>>

\* Client.run, lines 132-139, once the connection is closed.
ClientFinish ==
    /\ cpc = "exiting"
    /\ Leave(exc)
    /\ UNCHANGED svars
    /\ UNCHANGED <<peer, creds, csms_client, tasks, resp, c2s, s2c, sent>>

\* Every step but the routing of a call by the CSMSServer.
SessionNext ==
    \/ start_server
    \/ ServeBound
    \/ \E k \in Credentials, to \in {"server", "other"} : Run(k[1], k[2], to)
    \/ Handshake
    \/ OtherAccept
    \/ \E e \in {"WebSocketException", "OSError"} : ConnectFail(e)
    \/ Worker(1)
    \/ stop_server(1)
    \/ OtherReply
    \/ PeerClose(0)
    \/ \E c \in {0, 1} : TransportFail(c)
    \/ ClientOpen
    \/ \E t \in TaskNames : CallSend(t)
    \/ ClientRecv
    \/ \E t \in TaskNames : CallTimeout(t)
    \/ ReadLoopClosed
    \/ RunResumeBoot
    \/ RunResumeStatus
    \/ ClientClose
    \/ ClientFinish

Next ==
    \/ SessionNext
    \/ ServerRecv(1)

Spec == Init /\ [][Next]_vars

\* The event loops run every coroutine that is ready, the library answers a
\* handshake while the server listens, and a call that gets no response times
\* out.  What peers, the transport and the user do is not fair.
Fairness ==
    /\ WF_vars(start_server)
    /\ WF_vars(ServeBound)
    /\ WF_vars(Handshake)
    /\ WF_vars(Worker(1))
    /\ WF_vars(ServerRecv(1))
    /\ WF_vars(stop_server(1))
    /\ WF_vars(ClientOpen)
    /\ WF_vars(\E t \in TaskNames : CallSend(t))
    /\ WF_vars(ClientRecv)
    /\ WF_vars(\E t \in TaskNames : CallTimeout(t))
    /\ WF_vars(ReadLoopClosed)
    /\ WF_vars(RunResumeBoot)
    /\ WF_vars(RunResumeStatus)
    /\ WF_vars(ClientClose)
    /\ WF_vars(ClientFinish)

FairSpec == Spec /\ Fairness

\* ------------------------------------------------------------ teardown
MaxTeardowns == 2     \* finish_up is called from outside while fewer calls were made

\* Client.finish_up called by the owner of the Client, at any point of the
\* session and any number of times, besides the call in the finally of run.
Teardown ==
    /\ finish_ups < MaxTeardowns
    /\ tstate' = finish_up(tasks, tstate)
    /\ finish_ups' = finish_ups + 1
    /\ UNCHANGED svars
    /\ UNCHANGED <<peer, creds, cpc, exc, raised, csms_client, tasks, resp, c2s, s2c,
                   clog, sent>>

TeardownSpec == Init /\ [][Next \/ Teardown]_vars

\* ------------------------------------------------------------ boot handler
\* What the body of the try in on_boot_notification can end with, once the
\* reboot of the station that its TODO stands for is written.
TryOutcomes == {"none", "RuntimeError", "TimeoutError"}

\* The session with the station validation of on_boot_notification ending in
\* each of the ways the handler provides for.
HandlerNext ==
    \/ SessionNext
    \/ \E v \in TryOutcomes : Route(1, v)

HandlerSpec == Init /\ [][HandlerNext]_vars

\* ------------------------------------------------------------ negotiation claims
Expected == build_authorization_basic(USERNAME, PASSWORD)
WorkerRan(c) == wpc[c] \in {"started", "returned"}
Common(c) == Range(req[c].proto) \cap Range(OCPP_SUBPROTOCOLS)
Rejected(c, status, body) ==
    /\ wpc[c] = "returned"
    /\ result[c] = [status |-> status, headers |-> <<>>, body |-> body]
    /\ c \notin sessions
Names(body, list) == \E i \in 1..Len(body) : body[i] = list

\* C1: a connection whose Authorization header is missing or is not the
\* configured pair never gets a CSMSServer, and once worker has run it has
\* returned 401 (missing) or 403 (present, not equal).
C1_BadCredentialsRejected ==
    \A c \in Conns :
        (req[c] # NoReq /\ req[c].auth # Expected) =>
            /\ c \notin sessions
            /\ csms_server # c
            /\ wpc[c] # "started"
            /\ WorkerRan(c) =>
                   /\ wpc[c] = "returned"
                   /\ result[c].status =
                          IF req[c].auth = NoHeader THEN UNAUTHORIZED ELSE FORBIDDEN

C1_Witness ==
    \E c \in Conns :
        /\ req[c].auth = build_authorization_basic("test", "000")
        /\ wpc[c] = "returned"
        /\ result[c].status = FORBIDDEN
        /\ c \notin sessions

\* C2: the checks are applied in the order Authorization present, credentials
\* equal, subprotocol header present, subprotocol matched; the first that fails
\* decides the answer whatever else is wrong with the request, and a session is
\* started exactly for the requests that pass all four.
C2_FirstFailureWins ==
    \A c \in Conns :
        WorkerRan(c) =>
            /\ req[c].auth = NoHeader =>
                   Rejected(c, UNAUTHORIZED, Text("Access denied."))
            /\ (req[c].auth # NoHeader /\ req[c].auth # Expected) =>
                   Rejected(c, FORBIDDEN, Text("Invalid Username/Password."))
            /\ (req[c].auth = Expected /\ req[c].proto = NoHeader) =>
                   Rejected(c, BAD_REQUEST, Text("Subprotocol missing."))
            /\ (req[c].auth = Expected /\ req[c].proto # NoHeader /\ Common(c) = {}) =>
                   Rejected(c, BAD_REQUEST, MismatchMsg(OCPP_SUBPROTOCOLS, req[c].proto))
            /\ (req[c].auth = Expected /\ req[c].proto # NoHeader /\ Common(c) # {}) <=>
                   (c \in sessions /\ result[c] = None)

C2_Witness ==
    \E c \in Conns, d \in Conns :
        /\ req[c].auth = NoHeader /\ req[c].proto = NoHeader
        /\ Rejected(c, UNAUTHORIZED, Text("Access denied."))
        /\ req[d].auth = build_authorization_basic("eve", "123")
        /\ req[d].proto = <<"ocpp1.6">>
        /\ Rejected(d, FORBIDDEN, Text("Invalid Username/Password."))

\* C3 as stated: an authenticated request whose requested subprotocols share
\* nothing with the supported ones is answered 400 with a reason naming both
\* the supported and the requested list, and is never accepted.
C3_AsStated ==
    \A c \in Conns :
        (WorkerRan(c) /\ req[c].auth = Expected /\ Common(c) = {}) =>
            /\ wpc[c] = "returned"
            /\ c \notin sessions
            /\ result[c].status = BAD_REQUEST
            /\ Names(result[c].body, OCPP_SUBPROTOCOLS)
            /\ Names(result[c].body, req[c].proto)

\* C3 (amended): an authenticated request that carries a Sec-WebSocket-Protocol
\* header sharing nothing with the supported subprotocols is answered 400 with
\* a reason naming both lists; one that requests no subprotocol at all (no
\* header) is answered 400 "Subprotocol missing."; neither is accepted.
C3_MismatchRejected ==
    \A c \in Conns :
        (WorkerRan(c) /\ req[c].auth = Expected /\ Common(c) = {}) =>
            /\ wpc[c] = "returned"
            /\ c \notin sessions
            /\ result[c].status = BAD_REQUEST
            /\ IF req[c].proto = NoHeader
               THEN result[c].body = Text("Subprotocol missing.")
               ELSE /\ Names(result[c].body, OCPP_SUBPROTOCOLS)
                    /\ Names(result[c].body, req[c].proto)

C3_Witness ==
    \E c \in Conns :
        /\ req[c].auth = Expected
        /\ req[c].proto = <<"ocpp1.6">>
        /\ wpc[c] = "returned"
        /\ result[c].status = BAD_REQUEST
        /\ Names(result[c].body, <<"ocpp1.6">>)
        /\ Names(result[c].body, OCPP_SUBPROTOCOLS)

\* C4: the subprotocol of an accepted connection is the first entry of the
\* supported list, in the server's order, that the client also requested,
\* wherever the client put it in its own list.
FirstSupported(requested) ==
    LET i == CHOOSE k \in 1..Len(OCPP_SUBPROTOCOLS) :
                 /\ OCPP_SUBPROTOCOLS[k] \in Range(requested)
                 /\ \A j \in 1..(k - 1) : OCPP_SUBPROTOCOLS[j] \notin Range(requested)
    IN OCPP_SUBPROTOCOLS[i]

Wrote(action) == action \in Range(sent)
Times(action) == Cardinality({i \in 1..Len(sent) : sent[i] = action})
ServerRejected == peer = "server" /\ wpc[1] = "returned" /\ result[1] # None

\* C5 as stated: on a connection the Server rejects, the client never constructs
\* its CSMSClient, never starts its read loop and never writes a
\* boot notification call.
C5_AsStated ==
    ServerRejected =>
        /\ ~csms_client
        /\ tstate["start"] = "none"
        /\ ~Wrote("BootNotification")

\* C6: the status notification is written at most once, and only after the boot
\* notification call was written, its response received and handled (logged),
\* whatever RegistrationStatus it carries; its task does not even exist while
\* the boot notification call is unresolved.
C6_StatusAfterBoot ==
    /\ Times("StatusNotification") <= 1
    /\ Times("BootNotification") <= 1
    /\ tstate["status"] # "none" =>
           /\ tstate["boot"] = "done"
           /\ resp["boot"].status \in RegistrationStatusType
           /\ clog # <<>>
           /\ <<clog[1]>> = handle_boot_notification_response(resp["boot"])
    /\ Wrote("StatusNotification") =>
           /\ sent = <<"BootNotification", "StatusNotification">>
           /\ tstate["status"] # "none"

C6_Witness ==
    /\ Wrote("StatusNotification")
    /\ resp["boot"].status = "Pending"
    /\ clog = << <<"info", "Boot notification pending!">> >>

\* C7: a client with the configured credentials connected to the Server gets
\* Accepted with interval 10 for its boot notification, logs the
\* acknowledgement before it writes the status notification, and Client.run
\* returns after one teardown; with the transport up and the calls answered in
\* time it returns having done all of that.
ValidSession == peer = "server" /\ creds = <<USERNAME, PASSWORD>>
Faulted ==
    \/ link[1] = "failed"
    \/ \E t \in TaskNames : tstate[t] = "TimeoutError"
    \/ ~csms_client
Acknowledged == clog = << <<"info", "Boot notification acknowledged!">> >>
HappyEnd ==
    /\ resp["boot"] = [status |-> "Accepted", interval |-> 10]
    /\ Acknowledged
    /\ sent = <<"BootNotification", "StatusNotification">>
    /\ tstate["status"] = "done"
    /\ finish_ups = 1
    /\ raised = "none"

C7_EndToEnd ==
    /\ []((ValidSession /\ tstate["boot"] = "done") =>
              resp["boot"] = [status |-> "Accepted", interval |-> 10])
    /\ []((ValidSession /\ Wrote("StatusNotification")) => Acknowledged)
    /\ []((ValidSession /\ cpc = "returned" /\ ~Faulted) => HappyEnd)
    /\ ((ValidSession /\ cpc = "connecting") ~> (cpc = "returned"))

C7_Witness == ValidSession /\ cpc = "returned" /\ ~Faulted /\ HappyEnd

\* C8 as stated: once the status notification is written the client does not
\* wait for a reply; Client.run is not suspended on the call.
C8_AsStated ==
    ~(cpc = "await_status" /\ tstate["status"] = "waiting")

\* C9: Client.run calls finish_up exactly once before it returns, however it
\* leaves: normally, with a caught WebSocketException or RuntimeError, or with
\* an exception it does not catch, a refused connection included; and never
\* before.
C9_FinishUpOnce ==
    /\ cpc = "returned" => finish_ups = 1
    /\ cpc # "returned" => finish_ups = 0

C9_Witness ==
    /\ cpc = "returned"
    /\ raised = "OSError"
    /\ ~csms_client
    /\ finish_ups = 1

TaskStates == {"none"} \cup Unfinished \cup Finished
FinishUpCalled == finish_ups' = finish_ups + 1

\* C11: a call of finish_up, from the finally of Client.run or from outside,
\* once or again, raises nothing and leaves each task in a state that calling
\* it again does not change: a task of _tasks that has not finished becomes
\* cancelled, a task that has finished, was cancelled before or was never
\* created stays as it is; and a cancelled task stays cancelled.
C11_TeardownIdempotent ==
    [][/\ FinishUpCalled =>
              /\ \A t \in TaskNames :
                     /\ tstate'[t] \in TaskStates
                     /\ tstate[t] \in Unfinished => tstate'[t] = "cancelled"
                     /\ tstate[t] \notin Unfinished => tstate'[t] = tstate[t]
              /\ finish_up(tasks', tstate') = tstate'
              /\ (cpc' # "returned" => raised' = raised)
       /\ \A t \in TaskNames : tstate[t] = "cancelled" => tstate'[t] = "cancelled"]_vars

C11_Witness ==
    /\ finish_ups = 3
    /\ cpc = "returned"
    /\ raised = "CancelledError"
    /\ tstate["boot"] = "cancelled"
    /\ tstate["start"] = "cancelled"
    /\ sent = <<"BootNotification">>


\* ------------------------------------------------------------ failure claims
ErrorLogged == \E i \in 1..Len(clog) : clog[i][1] = "error"
CallTasks == {"boot", "status"}
\* A written call got no response: the transport dropped or the peer went quiet.
CallLost == \E t \in CallTasks : tstate[t] = "TimeoutError"

\* C12 as stated: when a call the client has written gets no response, because
\* the transport failed under it or the peer stopped replying, Client.run has
\* logged an error and cancelled its tasks by the time it is over, and returns.
C12_AsStated ==
    (cpc = "returned" /\ CallLost) =>
        /\ ErrorLogged
        /\ raised = "none"
        /\ \A t \in TaskNames : tstate[t] \notin Unfinished


BootLines ==
    {<<"info", "Boot notification acknowledged!">>,
     <<"info", "Boot notification pending!">>,
     <<"warning", "Boot notification rejected!">>}
BootEvents == {i \in 1..Len(clog) : clog[i] \in BootLines}
BootNone == tstate["boot"] = "done" /\ resp["boot"] = NonePayload

\* C13: when the boot notification call returns None, Client.run raises
\* RuntimeError out of its async with, catches it, logs "Unknown error happened
\* on server." as its only line, calls finish_up and returns; it logs no
\* acknowledged, pending or rejected line and never creates, let alone writes,
\* the status notification.
C13_NoResponse ==
    BootNone =>
        /\ BootEvents = {}
        /\ tstate["status"] = "none"
        /\ ~Wrote("StatusNotification")
        /\ cpc \in {"await_boot", "closing", "exiting", "returned"}
        /\ cpc \in {"closing", "exiting"} => exc = "RuntimeError"
        /\ cpc = "returned" =>
               /\ clog = << <<"error", "Unknown error happened on server.">> >>
               /\ raised = "none"
               /\ finish_ups = 1
               /\ \A t \in TaskNames : tstate[t] \notin Unfinished

C13_Witness ==
    /\ BootNone
    /\ cpc = "returned"
    /\ clog = << <<"error", "Unknown error happened on server.">> >>
    /\ tstate["start"] = "cancelled"
    /\ sent = <<"BootNotification">>


\* The transport of the client's session dropped, and a task of the session,
\* the read loop or a call that was writing, ended with the ConnectionClosed.
TransportErrorSeen ==
    /\ csms_client
    /\ link[ClientLink] = "failed"
    /\ \E t \in TaskNames : tstate[t] = "WebSocketException"

\* C14 as stated: a transport error raised in a task of an open session,
\* the read loop included, is caught in Client.run: by the time Client.run is
\* over it has logged an error, called finish_up once, written no call twice,
\* and it returns instead of raising.
C14_AsStated ==
    (cpc = "returned" /\ TransportErrorSeen) =>
        /\ ErrorLogged
        /\ raised = "none"
        /\ finish_ups = 1
        /\ Times("BootNotification") <= 1
        /\ Times("StatusNotification") <= 1


\* ------------------------------------------------------------ exchange claims
BootLine(status) ==
    IF status = "Accepted" THEN <<"info", "Boot notification acknowledged!">>
    ELSE IF status = "Pending" THEN <<"info", "Boot notification pending!">>
    ELSE <<"warning", "Boot notification rejected!">>
BootHandled ==
    /\ tstate["boot"] = "done"
    /\ resp["boot"].status \in RegistrationStatusType
    /\ cpc # "await_boot"
BootResolves == tstate["boot"] = "waiting" /\ tstate'["boot"] = "done"

\* C15: the boot notification call returns the payload of the CallResult that
\* carries its id; once Client.run has handled that response its log holds
\* exactly one boot line, the one of the response's RegistrationStatus (info
\* acknowledged for Accepted, info pending for Pending, warning rejected for
\* Rejected); the log never holds more than one, and none before the call has
\* returned.
C15_OneEventPerResponse ==
    /\ [](Cardinality(BootEvents) <= 1)
    /\ [](BootHandled => \E i \in 1..Len(clog) :
                             BootEvents = {i} /\ clog[i] = BootLine(resp["boot"].status))
    /\ [](BootEvents # {} => BootHandled)
    /\ [][BootResolves =>
              /\ s2c # <<>>
              /\ Head(s2c).id = CallId("boot")
              /\ Head(s2c).type = "CallResult" => resp'["boot"] = Head(s2c).payload]_vars

C15_Witness ==
    /\ cpc = "returned"
    /\ resp["boot"] = [status |-> "Rejected", interval |-> 10]
    /\ clog = << <<"warning", "Boot notification rejected!">> >>
    /\ raised = "none"


\* ------------------------------------------------------------ server session claims
ClosedLines(c) == {i \in 1..Len(slog[c]) : slog[c][i][1] = "warning"}

\* C17 as stated: the CSMSServer that the worker of a connection names when
\* that connection is closed (the charge point id in the line stop_server logs)
\* is the one constructed for that connection, however many connections are
\* open and however their workers interleave.
C17_AsStated ==
    \A c \in Conns :
        \A i \in ClosedLines(c) : slog[c][i][2] = <<"Connection closed", c>>


\* ------------------------------------------------------------ handler claims
BootPairs ==
    {[status |-> "Accepted", interval |-> 10],
     [status |-> "Pending", interval |-> 120],
     [status |-> "Rejected", interval |-> 60]}
Decision(v) ==
    IF v = "none" THEN [status |-> "Accepted", interval |-> 10]
    ELSE IF v = "TimeoutError" THEN [status |-> "Pending", interval |-> 120]
    ELSE [status |-> "Rejected", interval |-> 60]
BootRouted ==
    /\ peer = "server"
    /\ c2s # <<>>
    /\ Head(c2s).action = "BootNotification"
    /\ c2s' = Tail(c2s)

\* C18: the response the CSMSServer writes to a boot notification call is
\* (Accepted, 10) when the validation raised nothing, (Pending, 120) when it
\* raised TimeoutError, (Rejected, 60) when it raised RuntimeError, and nothing
\* else; the handler writes it in the step that takes the call, without waiting
\* for anything; and that is the response the client's call returns.
C18_BootDecision ==
    /\ [](peer = "server" =>
              /\ \A i \in 1..Len(s2c) :
                     s2c[i].id = CallId("boot") =>
                         /\ s2c[i].type = "CallResult"
                         /\ s2c[i].payload \in BootPairs
                         /\ s2c[i].payload = Decision(validation)
              /\ tstate["boot"] = "done" => resp["boot"] = Decision(validation))
    /\ [][BootRouted =>
              s2c' = Append(s2c, ResultFrame(Head(c2s).id, "CallResult",
                                             Decision(validation')))]_vars

C18_Witness ==
    /\ validation = "TimeoutError"
    /\ tstate["boot"] = "done"
    /\ resp["boot"] = [status |-> "Pending", interval |-> 120]
    /\ clog = << <<"info", "Boot notification pending!">> >>


\* ------------------------------------------------------------ lifecycle claims
\* The state of the client's session: 1 Handshaking, 2 Open, 3 Closing,
\* 4 Closed; 0 before Client.run is called.
ClientSession ==
    CASE cpc = "init" -> 0
      [] cpc = "connecting" -> 1
      [] cpc \in {"await_boot", "await_status"} -> 2
      [] cpc \in {"closing", "exiting"} -> 3
      [] OTHER -> 4

\* The state of the server's side of connection c: worker goes from its checks
\* (Handshaking) to the started CSMSServer (Open) and returns (Closed).
ServerSession(c) ==
    CASE wpc[c] = "none" -> 0
      [] wpc[c] = "invoked" -> 1
      [] wpc[c] = "started" -> 2
      [] OTHER -> 4

Admitted(c) == wpc[c] \in {"started", "returned"} /\ result[c] = None

SessionsMoveForward ==
    [][/\ ClientSession' >= ClientSession
       /\ \A c \in Conns : ServerSession(c)' >= ServerSession(c)]_vars
OpenOnlyIfAccepted ==
    /\ (ClientSession = 2 /\ peer = "server") => Admitted(1)
    /\ (ClientSession = 2 /\ peer = "other") => link[0] # "idle"
    /\ \A c \in Conns : ServerSession(c) = 2 => (c \in sessions /\ result[c] = None)
ClosedAfterTeardown ==
    ClientSession = 4 =>
        /\ finish_ups >= 1
        /\ \A t \in TaskNames : tstate[t] \notin Unfinished
ClosedIsFinal ==
    [][/\ ClientSession = 4 => UNCHANGED <<cpc, tstate, resp, c2s, sent, clog>>
       /\ \A c \in Conns :
              ServerSession(c) = 4 =>
                  /\ wpc'[c] = wpc[c]
                  /\ (peer = "server" /\ c = 1) => s2c' = s2c \/ s2c' = Tail(s2c)]_vars

\* C19 as stated: the client's session and the server's side of each
\* connection only move forward through Handshaking, Open, Closing, Closed; a
\* session is Open only when the negotiation of its connection has returned
\* Accepted; it is Closed only when teardown has run; and a Closed session
\* changes no more, writes no frame and runs no handler.
C19_AsStated ==
    /\ SessionsMoveForward
    /\ []OpenOnlyIfAccepted
    /\ []ClosedAfterTeardown
    /\ ClosedIsFinal


\* ------------------------------------------------------------ isolation claims
StopServerRan(c) == wpc[c] = "started" /\ wpc'[c] = "returned"
SessionClosed(c) == ClosedLines(c) # {}
ValidRequest == [auth |-> Expected, proto |-> OCPP_SUBPROTOCOLS]

\* C20: when the session of connection c fails or is closed, stop_server
\* changes nothing of any other connection (its link, its worker, its session,
\* its log) and the server goes on listening: a connection that arrives later
\* is accepted by the library, and worker admits it as before.
C20_FailureIsLocal ==
    /\ [][\A c \in Conns :
              StopServerRan(c) =>
                  /\ \A d \in Conns \ {c} :
                         /\ link'[d] = link[d]
                         /\ wpc'[d] = wpc[d]
                         /\ slog'[d] = slog[d]
                         /\ result'[d] = result[d]
                  /\ sessions' = sessions
                  /\ Listening']_vars
    /\ []((\E c \in Conns : SessionClosed(c)) =>
              /\ Listening
              /\ \A d \in Conns :
                     /\ req[d] = NoReq => ENABLED PeerConnect(d, ValidRequest)
                     /\ (wpc[d] = "invoked" /\ req[d] = ValidRequest) =>
                            worker(req[d], subprotocol[d], OCPP_SUBPROTOCOLS) = None)

C20_Witness ==
    /\ link[1] = "failed"
    /\ SessionClosed(1)
    /\ wpc[1] = "returned"
    /\ link[2] = "open"
    /\ wpc[2] = "started"
    /\ csms_server = 2
    /\ Listening


====
